---- MODULE Spec2Model ----
(***************************************************************************)
(* The array adapters of psycopg3 (psycopg3/types/array.py): the text and  *)
(* binary dumpers of Python lists and the text and binary loaders of       *)
(* PostgreSQL arrays.                                                      *)
(*                                                                         *)
(* Wire data are sequences of bytes (integers 0..255).  A Python value is  *)
(* a tagged record: a list, None, or a scalar leaf of type str or int (or  *)
(* of a type the catalog does not know).                                   *)
(***************************************************************************)
EXTENDS Integers, Sequences, FiniteSets, TLC

\* ------------------------------------------------------------------ bounds

\* Nodes (lists, leaves and None) of the value trees enumerated exhaustively.
MaxNodes == 6

\* Length of the leaf strings enumerated exhaustively over TextAlphabet.
MaxStr == 2

\* Length of the raw text inputs handed to ArrayLoader.load.
MaxText == 6

\* Elements in the body of a raw binary input.
MaxElems == 2

\* ------------------------------------------------------------------ bytes

\* The bytes the module's literals and regular expressions name.
Byte ==
    [ lbrace |-> 123, rbrace |-> 125, comma |-> 44, dquote |-> 34,
      bslash |-> 92, space |-> 32, tab |-> 9, nl |-> 10, vt |-> 11,
      ff |-> 12, cr |-> 13, N |-> 78, U |-> 85, L |-> 76,
      n |-> 110, u |-> 117, l |-> 108, a |-> 97, zero |-> 48 ]

\* b"NULL"
NULL_WORD == <<Byte.N, Byte.U, Byte.L, Byte.L>>

\* What \s matches in a bytes pattern: [ \t\n\r\f\v].
Whitespace == {Byte.space, Byte.tab, Byte.nl, Byte.cr, Byte.ff, Byte.vt}

\* ASCII lower case of one byte (the (?i) flag of a bytes pattern).
Lower(b) == IF b \in 65..90 THEN b + 32 ELSE b

LowerAll(s) == [i \in 1..Len(s) |-> Lower(s[i])]

RECURSIVE Join(_)
\* b"".join(tokens)
Join(tokens) ==
    IF tokens = <<>> THEN <<>> ELSE Head(tokens) \o Join(Tail(tokens))

\* Python's data[a:b] (0-based, negative indexes count from the end).
Slice(data, a, b) ==
    LET n == Len(data)
        norm(i) == IF i < 0 THEN (IF i + n < 0 THEN 0 ELSE i + n)
                   ELSE (IF i > n THEN n ELSE i)
        lo == norm(a)
        hi == norm(b)
    IN  IF hi <= lo THEN <<>> ELSE SubSeq(data, lo + 1, hi)

\* ----------------------------------------------------------------- values

List(items) == [k |-> "list", items |-> items]
None == [k |-> "None"]
Leaf(ty, val) == [k |-> "leaf", ty |-> ty, val |-> val]

IsList(x) == x.k = "list"
IsNone(x) == x.k = "None"

\* ---------------------------------------------------------------- catalog

TEXT_OID == 25
TEXT_ARRAY_OID == 1009

\* The entries of the type catalog the model uses: text, int2 and unknown
\* (which has no array type).
builtins ==
    { [name |-> "text", oid |-> TEXT_OID, array_oid |-> TEXT_ARRAY_OID],
      [name |-> "int2", oid |-> 21, array_oid |-> 1005],
      [name |-> "unknown", oid |-> 705, array_oid |-> 0] }

\* builtins.get(oid): the set holding the entry, empty when there is none.
builtins_get(oid) == {t \in builtins : t.oid = oid}

\* BaseListDumper._get_array_oid
_get_array_oid(base_oid) ==
    LET info == builtins_get(base_oid)
        oid == IF base_oid # 0 /\ info # {}
               THEN (CHOOSE t \in info : TRUE).array_oid
               ELSE 0
    IN  IF oid # 0 THEN oid ELSE TEXT_ARRAY_OID

\* BaseListDumper.oid, the property, of an instance whose _array_oid is given.
oid_property(array_oid) == IF array_oid # 0 THEN array_oid ELSE TEXT_ARRAY_OID

\* ---------------------------------------------------------- scalar codecs

RECURSIVE Digits(_)
\* str(n).encode() of a natural number.
Digits(n) ==
    IF n < 10 THEN <<Byte.zero + n>>
    ELSE Digits(n \div 10) \o <<Byte.zero + (n % 10)>>

IsDigit(b) == b \in Byte.zero..(Byte.zero + 9)

RECURSIVE ParseInt(_, _)
\* int(bytes) of a run of digits, acc the value read so far.
ParseInt(s, acc) ==
    IF s = <<>> THEN acc
    ELSE ParseInt(Tail(s), 10 * acc + (Head(s) - Byte.zero))

\* The oid of the scalar dumper the resolver returns for a leaf: str dumps
\* as text, int as int2, and the dumper of any other type states no oid.
scalar_oid(item) ==
    CASE item.ty = "str" -> TEXT_OID
      [] item.ty = "int" -> 21
      [] OTHER -> 0

\* dumper.dump(item) in text format: utf-8 of a str (ASCII code points),
\* the decimal digits of an int.
scalar_dump_text(item) ==
    IF item.ty = "int" THEN Digits(item.val) ELSE item.val

\* dumper.dump(item) in binary format: utf-8 of a str, two big-endian bytes
\* of an int.
scalar_dump_binary(item) ==
    IF item.ty = "int" THEN <<(item.val \div 256) % 256, item.val % 256>>
    ELSE item.val

Ok(v) == [st |-> "ok", val |-> v]
Raise(exc) == [st |-> exc]

\* get_loader(oid, Format.TEXT).load
scalar_load_text(oid, b) ==
    IF oid = 21
    THEN IF b # <<>> /\ \A i \in 1..Len(b) : IsDigit(b[i])
         THEN Ok(Leaf("int", ParseInt(b, 0)))
         ELSE Raise("ValueError")
    ELSE IF \A i \in 1..Len(b) : b[i] < 128
         THEN Ok(Leaf("str", b))
         ELSE Raise("UnicodeDecodeError")

\* get_loader(oid, Format.BINARY).load
scalar_load_binary(oid, b) ==
    IF oid = 21
    THEN IF Len(b) = 2 THEN Ok(Leaf("int", 256 * b[1] + b[2]))
         ELSE Raise("struct.error")
    ELSE IF \A i \in 1..Len(b) : b[i] < 128
         THEN Ok(Leaf("str", b))
         ELSE Raise("UnicodeDecodeError")

\* Whether the resolver has a scalar loader for the oid.
has_loader(oid) == oid \in {TEXT_OID, 21}

\* ------------------------------------------------------------- ListDumper

\* The pattern without its (?i) flag: only the lower-case word is matched.
needs_quotes_case_sensitive(ad) ==
    LET anchored(w) == ad = w \/ ad = w \o <<Byte.nl>>
    IN  \/ anchored(<<>>)
        \/ \E i \in 1..Len(ad) :
              ad[i] \in {Byte.dquote, Byte.lbrace, Byte.rbrace, Byte.comma,
                         Byte.bslash} \cup Whitespace
        \/ anchored(LowerAll(NULL_WORD))

\* ListDumper._re_needs_quotes.search(ad) is not None.  Without re.MULTILINE
\* $ matches at the end and before a newline that ends the input.
needs_quotes(ad) ==
    LET anchored(w) == ad = w \/ ad = w \o <<Byte.nl>>
    IN  \/ anchored(<<>>)
        \/ \E i \in 1..Len(ad) :
              ad[i] \in {Byte.dquote, Byte.lbrace, Byte.rbrace, Byte.comma,
                         Byte.bslash} \cup Whitespace
        \/ LET w == LowerAll(ad)
           IN  w = LowerAll(NULL_WORD) \/ w = LowerAll(NULL_WORD) \o <<Byte.nl>>

RECURSIVE escape_quotes_only(_)
\* An escape that forgets the backslash.
escape_quotes_only(ad) ==
    IF ad = <<>> THEN <<>>
    ELSE (IF Head(ad) = Byte.dquote
          THEN <<Byte.bslash, Head(ad)>> ELSE <<Head(ad)>>)
         \o escape_quotes_only(Tail(ad))

RECURSIVE escape(_)
\* ListDumper._re_escape.sub(br"\\\1", ad)
escape(ad) ==
    IF ad = <<>> THEN <<>>
    ELSE (IF Head(ad) \in {Byte.dquote, Byte.bslash}
          THEN <<Byte.bslash, Head(ad)>> ELSE <<Head(ad)>>) \o escape(Tail(ad))

\* The token of one non-None leaf.
text_token(item) ==
    LET ad == scalar_dump_text(item)
    IN  IF needs_quotes(ad)
        THEN <<Byte.dquote>> \o escape(ad) \o <<Byte.dquote>>
        ELSE ad

RECURSIVE text_dump_list(_, _)
RECURSIVE text_dump_items(_, _, _)
\* dump_list of ListDumper.dump; st holds the closure's tokens and oid (the
\* empty sequence is None).
text_dump_list(obj, st) ==
    IF obj.items = <<>>
    THEN [st EXCEPT !.tokens = Append(@, <<Byte.lbrace, Byte.rbrace>>)]
    ELSE LET st1 == [st EXCEPT !.tokens = Append(@, <<Byte.lbrace>>)]
             st2 == text_dump_items(obj.items, 1, st1)
         IN  [st2 EXCEPT !.tokens[Len(st2.tokens)] = <<Byte.rbrace>>]

\* The for loop of dump_list, from item i on.
text_dump_items(items, i, st) ==
    IF i > Len(items) THEN st
    ELSE LET item == items[i]
             st1 == IF IsList(item) THEN text_dump_list(item, st)
                    ELSE IF ~IsNone(item)
                    THEN [tokens |-> Append(st.tokens, text_token(item)),
                          oid |-> IF st.oid = <<>> THEN <<scalar_oid(item)>>
                                  ELSE st.oid]
                    ELSE [st EXCEPT !.tokens = Append(@, NULL_WORD)]
         IN  text_dump_items(items, i + 1,
                 [st1 EXCEPT !.tokens = Append(@, <<Byte.comma>>)])

\* ListDumper.dump on an instance whose _array_oid is array_oid: the bytes
\* returned and the instance's _array_oid afterwards.
ListDumper_dump_fn(obj, array_oid) ==
    LET st == text_dump_list(obj, [tokens |-> <<>>, oid |-> <<>>])
    IN  [ret |-> Ok(Join(st.tokens)),
         array_oid |-> IF st.oid # <<>>
                       THEN _get_array_oid(st.oid[1]) ELSE array_oid]

\* ------------------------------------------------------- ListBinaryDumper

\* struct "!I" and "!i": the four big-endian bytes of n in two's complement
\* (\div rounds down and % is never negative).
Pack32(n) ==
    <<(n \div 16777216) % 256, (n \div 65536) % 256, (n \div 256) % 256,
      n % 256>>

\* _struct_head.pack
pack_head(ndims, hasnull, oid) == Pack32(ndims) \o Pack32(hasnull) \o Pack32(oid)

RECURSIVE pack_dims(_)
\* b"".join(_struct_dim.pack(dim, 1) for dim in dims)
pack_dims(dims) ==
    IF dims = <<>> THEN <<>>
    ELSE Pack32(Head(dims)) \o Pack32(1) \o pack_dims(Tail(dims))

RECURSIVE calc_dims(_)
\* calc_dims of ListBinaryDumper.dump: the dims appended, or the error.
calc_dims(L) ==
    IF ~IsList(L) THEN [err |-> "", dims |-> <<>>]
    ELSE IF L.items = <<>>
    THEN [err |-> "lists cannot contain empty lists", dims |-> <<>>]
    ELSE LET r == calc_dims(L.items[1])
         IN  [r EXCEPT !.dims = <<Len(L.items)>> \o @]

\* The _array_oid of the ListBinaryDumper at nesting level d: the instance
\* at level d + 1 is the one the transformer of the instance at level d
\* caches for list items.  A level not yet created is a fresh instance.
inst_get(insts, d) == IF d <= Len(insts) THEN insts[d] ELSE 0

inst_set(insts, d, v) ==
    [i \in 1..(IF d > Len(insts) THEN d ELSE Len(insts)) |->
        IF i = d THEN v ELSE inst_get(insts, i)]

RECURSIVE ListBinaryDumper_dump_fn(_, _, _)
RECURSIVE bin_dump_list(_, _, _, _, _)
RECURSIVE bin_dump_leaves(_, _, _, _)
RECURSIVE bin_dump_lists(_, _, _, _, _, _)
\* ListBinaryDumper.dump of the instance at nesting level d: the result (the
\* bytes or the DataError) and the instances' _array_oid afterwards.
ListBinaryDumper_dump_fn(obj, insts, d) ==
    IF obj.items = <<>>
    THEN [ret |-> Ok(pack_head(0, 0, TEXT_OID)), insts |-> insts]
    ELSE LET cd == calc_dims(obj)
         IN  IF cd.err # "" THEN [ret |-> Raise("DataError"), insts |-> insts]
             ELSE LET st == bin_dump_list(obj, 0, cd.dims, d,
                                [data |-> <<>>, oid |-> <<>>, hasnull |-> 0,
                                 err |-> "", insts |-> insts])
                      oid == IF st.oid = <<>> THEN TEXT_OID ELSE st.oid[1]
                  IN  IF st.err # ""
                      THEN [ret |-> Raise("DataError"), insts |-> st.insts]
                      ELSE [ret |-> Ok(pack_head(Len(cd.dims), st.hasnull, oid)
                                       \o pack_dims(cd.dims) \o st.data),
                            insts |-> inst_set(st.insts, d, _get_array_oid(oid))]

\* dump_list(L, dim); st holds the closure's data, oid and hasnull, the
\* error raised if any, and the instances.
bin_dump_list(L, dim, dims, d, st) ==
    IF Len(L.items) # dims[dim + 1]
    THEN [st EXCEPT !.err = "nested lists have inconsistent lengths"]
    ELSE IF dim = Len(dims) - 1
    THEN bin_dump_leaves(L.items, 1, d, st)
    ELSE bin_dump_lists(L.items, 1, dim, dims, d, st)

\* The loop over the items of the last dimension, from item i on.
bin_dump_leaves(items, i, d, st) ==
    IF i > Len(items) \/ st.err # "" THEN st
    ELSE LET item == items[i]
         IN  IF IsNone(item)
             THEN bin_dump_leaves(items, i + 1, d,
                      [st EXCEPT !.hasnull = 1,
                                 !.data = @ \o <<255, 255, 255, 255>>])
             ELSE IF IsList(item)
             THEN \* get_dumper returns the list dumper of the next level
                  LET r == ListBinaryDumper_dump_fn(item, st.insts, d + 1)
                  IN  IF r.ret.st # "ok"
                      THEN [st EXCEPT !.err = "nested dump", !.insts = r.insts]
                      ELSE bin_dump_leaves(items, i + 1, d,
                             [st EXCEPT
                                !.data = @ \o Pack32(Len(r.ret.val)) \o r.ret.val,
                                !.insts = r.insts,
                                !.oid = IF @ = <<>>
                                        THEN <<oid_property(inst_get(r.insts, d + 1))>>
                                        ELSE @])
             ELSE LET ad == scalar_dump_binary(item)
                  IN  bin_dump_leaves(items, i + 1, d,
                        [st EXCEPT !.data = @ \o Pack32(Len(ad)) \o ad,
                                   !.oid = IF @ = <<>> THEN <<scalar_oid(item)>>
                                           ELSE @])

\* The loop over the items of an outer dimension, from item i on.
bin_dump_lists(items, i, dim, dims, d, st) ==
    IF i > Len(items) \/ st.err # "" THEN st
    ELSE IF ~IsList(items[i])
    THEN [st EXCEPT !.err = "nested lists have inconsistent depths"]
    ELSE bin_dump_lists(items, i + 1, dim, dims, d,
             bin_dump_list(items[i], dim + 1, dims, d, st))

\* ------------------------------------------------------------ ArrayLoader

\* The end of the quoted string's body (?: [^"\\] | \\. )* scanned from
\* position j: the first position that is neither an ordinary byte nor a
\* backslash followed by a byte other than a newline.
RECURSIVE quoted_body_end(_, _)
quoted_body_end(data, j) ==
    IF j > Len(data) THEN j
    ELSE IF data[j] \notin {Byte.dquote, Byte.bslash}
    THEN quoted_body_end(data, j + 1)
    ELSE IF data[j] = Byte.bslash /\ j + 1 <= Len(data) /\ data[j + 1] # Byte.nl
    THEN quoted_body_end(data, j + 2)
    ELSE j

RECURSIVE unquoted_end(_, _)
\* The end of the run [^"{},\\]+ scanned from position j.
unquoted_end(data, j) ==
    IF j <= Len(data)
       /\ data[j] \notin {Byte.dquote, Byte.lbrace, Byte.rbrace, Byte.comma,
                          Byte.bslash}
    THEN unquoted_end(data, j + 1)
    ELSE j

\* ArrayLoader._re_parse matched at position i: the position after group 1,
\* or 0 when the pattern does not match there.
token_end(data, i) ==
    IF data[i] \in {Byte.lbrace, Byte.rbrace} THEN i + 1
    ELSE IF data[i] = Byte.dquote
    THEN LET j == quoted_body_end(data, i + 1)
         IN  IF j <= Len(data) /\ data[j] = Byte.dquote THEN j + 1 ELSE 0
    ELSE LET j == unquoted_end(data, i)
         IN  IF j > i THEN j ELSE 0

RECURSIVE unescape(_)
\* ArrayLoader._re_unescape.sub(br"\1", t); the dot matches no newline.
unescape(t) ==
    IF t = <<>> THEN <<>>
    ELSE IF Head(t) = Byte.bslash /\ Len(t) >= 2 /\ t[2] # Byte.nl
    THEN <<t[2]>> \o unescape(Tail(Tail(t)))
    ELSE <<Head(t)>> \o unescape(Tail(t))

Ref(id) == [k |-> "ref", id |-> id]

RECURSIVE Deref(_, _)
\* The Python list object id of the heap as a value.
Deref(heap, id) ==
    List([i \in 1..Len(heap[id]) |->
            IF heap[id][i].k = "ref" THEN Deref(heap, heap[id][i].id)
            ELSE heap[id][i]])

RECURSIVE text_load_from(_, _, _, _)
\* The for loop of ArrayLoader.load over the matches found from position i
\* on.  st holds rv and the stack (ids of list objects, 0 is None), the
\* heap of the list objects created (one per '{', in order) and the
\* exception raised if any.
text_load_from(data, i, base_oid, st) ==
    IF i > Len(data) THEN st
    ELSE LET e == token_end(data, i)
         IN  IF e = 0 THEN text_load_from(data, i + 1, base_oid, st)
             ELSE
             LET t == SubSeq(data, i, e - 1)
                 next == IF e <= Len(data) /\ data[e] = Byte.comma
                         THEN e + 1 ELSE e
                 top == IF st.stack = <<>> THEN 0 ELSE st.stack[Len(st.stack)]
             IN  IF t = <<Byte.lbrace>>
                 THEN LET a == Len(st.heap) + 1
                          heap1 == Append(st.heap, <<>>)
                          heap2 == IF top # 0
                                   THEN [heap1 EXCEPT ![top] = Append(@, Ref(a))]
                                   ELSE heap1
                      IN  text_load_from(data, next, base_oid,
                            [st EXCEPT !.rv = IF @ = 0 THEN a ELSE @,
                                       !.heap = heap2,
                                       !.stack = Append(@, a)])
                 ELSE IF t = <<Byte.rbrace>>
                 THEN IF top = 0 THEN [st EXCEPT !.exc = "DataError"]
                      ELSE text_load_from(data, next, base_oid,
                            [st EXCEPT !.rv = top,
                                       !.stack = SubSeq(@, 1, Len(@) - 1)])
                 ELSE IF top = 0 THEN [st EXCEPT !.exc = "DataError"]
                 ELSE IF t = NULL_WORD
                 THEN text_load_from(data, next, base_oid,
                        [st EXCEPT !.heap[top] = Append(@, None)])
                 ELSE LET raw == IF Head(t) = Byte.dquote
                                 THEN unescape(SubSeq(t, 2, Len(t) - 1))
                                 ELSE t
                          v == scalar_load_text(base_oid, raw)
                      IN  IF v.st # "ok" THEN [st EXCEPT !.exc = v.st]
                          ELSE text_load_from(data, next, base_oid,
                                 [st EXCEPT !.heap[top] = Append(@, v.val)])

\* ArrayLoader.load of a loader class whose base_oid is given: the result
\* and the id of the list object returned (the n-th '{' creates object n).
ArrayLoader_load_fn(data, base_oid) ==
    LET st == text_load_from(data, 1, base_oid,
                  [rv |-> 0, stack |-> <<>>, heap |-> <<>>, exc |-> ""])
        rv == st.rv
    IN  IF st.exc # "" THEN [ret |-> Raise(st.exc), rv |-> 0]
        ELSE IF rv = 0 THEN [ret |-> Raise("AssertionError"), rv |-> 0]
        ELSE [ret |-> Ok(Deref(st.heap, rv)), rv |-> rv]

\* ------------------------------------------------------ ArrayBinaryLoader

\* Whether struct.unpack_from(data, off) can read n bytes; a negative
\* offset counts from the end of the buffer.
unpack_ok(data, off, n) ==
    IF off < 0 THEN off + Len(data) >= 0 /\ off + n <= 0
    ELSE Len(data) - off >= n

\* _struct_len ("!i"): the signed big-endian 32-bit integer unpack_from
\* reads at offset off.
Unpack32s(data, off) ==
    LET s == IF off < 0 THEN off + Len(data) ELSE off
        hi == IF data[s + 1] >= 128 THEN data[s + 1] - 256 ELSE data[s + 1]
    IN  16777216 * hi + 65536 * data[s + 2] + 256 * data[s + 3] + data[s + 4]

\* "!I": the same four bytes unsigned, for the values below 2^31 (the
\* headers and dimensions of the inputs drawn stay below it).
Unpack32(data, off) == Unpack32s(data, off)

\* A slice that ends one byte early.
payload_short(data, p, size) == Slice(data, p, p + size - 1)

\* The payload consume hands to the scalar loader: data[p : p + size].
payload(data, p, size) == Slice(data, p, p + size)

\* One item of the generator consume: st holds the offset p, the reads made
\* so far and the exception raised if any.
consume_next(data, oid, st) ==
    IF ~unpack_ok(data, st.p, 4)
    THEN [val |-> None, st |-> [st EXCEPT !.exc = "struct.error"]]
    ELSE LET size == Unpack32s(data, st.p)
             p1 == st.p + 4
         IN  IF size # -1
             THEN LET b == payload(data, p1, size)
                      v == scalar_load_binary(oid, b)
                      rd == [at |-> st.p, size |-> size, handed |-> Len(b),
                             next |-> p1 + size]
                  IN  IF v.st # "ok"
                      THEN [val |-> None,
                            st |-> [st EXCEPT !.exc = v.st,
                                              !.reads = Append(@, rd)]]
                      ELSE [val |-> v.val,
                            st |-> [p |-> p1 + size, exc |-> "",
                                    reads |-> Append(st.reads, rd)]]
             ELSE [val |-> None,
                   st |-> [p |-> p1, exc |-> "",
                           reads |-> Append(st.reads,
                               [at |-> st.p, size |-> size, handed |-> 0,
                                next |-> p1])]]

RECURSIVE agg(_, _, _, _)
RECURSIVE agg_items(_, _, _, _, _, _)
\* agg(dims) of ArrayBinaryLoader.load.
agg(data, oid, dims, st) ==
    IF dims = <<>> THEN consume_next(data, oid, st)
    ELSE agg_items(data, oid, Tail(dims), Head(dims), <<>>, st)

\* The list comprehension of agg: n more items after those in acc.
agg_items(data, oid, dims, n, acc, st) ==
    IF st.exc # "" THEN [val |-> None, st |-> st]
    ELSE IF n = 0 THEN [val |-> List(acc), st |-> st]
    ELSE LET r == agg(data, oid, dims, st)
         IN  agg_items(data, oid, dims, n - 1, Append(acc, r.val), r.st)

RECURSIVE read_dims(_, _, _)
\* The dims comprehension: the extents at offsets i, i + 8, ... below p.
read_dims(data, i, p) ==
    IF i >= p THEN <<>>
    ELSE <<Unpack32(data, i)>> \o read_dims(data, i + 8, p)

\* ArrayBinaryLoader.load: the result and the reads the generator made.
ArrayBinaryLoader_load_fn(data) ==
    IF Len(data) < 12 THEN [ret |-> Raise("struct.error"), reads |-> <<>>]
    ELSE
    LET ndims == Unpack32(data, 0)
        oid == Unpack32(data, 8)
        p == 12 + 8 * ndims
    IN  IF ndims = 0 THEN [ret |-> Ok(List(<<>>)), reads |-> <<>>]
        ELSE IF ~has_loader(oid)
        THEN [ret |-> Raise("UnknownElementType"), reads |-> <<>>]
        ELSE IF \E i \in 0..(ndims - 1) : ~unpack_ok(data, 12 + 8 * i, 8)
        THEN [ret |-> Raise("struct.error"), reads |-> <<>>]
        ELSE LET r == agg(data, oid, read_dims(data, 12, p),
                          [p |-> p, exc |-> "", reads |-> <<>>])
             IN  IF r.st.exc # ""
                 THEN [ret |-> Raise(r.st.exc), reads |-> r.st.reads]
                 ELSE [ret |-> Ok(r.val), reads |-> r.st.reads]

\* ----------------------------------------------------------- registration

\* register_all_arrays: the array loaders registered, by array oid, each
\* with the base_oid of its class.
array_loaders ==
    { [array_oid |-> t.array_oid, base_oid |-> t.oid] :
        t \in {u \in builtins : u.array_oid # 0 /\ has_loader(u.oid)} }

\* The base_oid of the loader registered for an array oid.
loader_base_oid(array_oid) ==
    (CHOOSE r \in array_loaders : r.array_oid = array_oid).base_oid

\* ----------------------------------------------------------------- inputs

RECURSIVE SeqsUpTo(_, _)
\* The sequences over S of length at most n.
SeqsUpTo(S, n) ==
    IF n = 0 THEN {<<>>}
    ELSE LET R == SeqsUpTo(S, n - 1)
         IN  R \cup {Append(r, x) : r \in {q \in R : Len(q) = n - 1}, x \in S}

StrLeaf(s) == Leaf("str", s)

\* The leaves of the value trees enumerated by size.
LeafPool == {None, StrLeaf(<<Byte.a>>), Leaf("int", 7)}

RECURSIVE Trees(_)
RECURSIVE Forests(_)
\* The values of exactly k nodes.
Trees(k) ==
    (IF k = 1 THEN LeafPool ELSE {}) \cup {List(f) : f \in Forests(k - 1)}

\* The item sequences of exactly n nodes in all.
Forests(n) ==
    IF n = 0 THEN {<<>>}
    ELSE UNION { {<<t>> \o f : t \in Trees(k), f \in Forests(n - k)} :
                 k \in 1..n }

\* Every list of at most MaxNodes nodes: rectangular or not, of any depth.
TreeValues == UNION { {List(f) : f \in Forests(k - 1)} : k \in 1..MaxNodes }

\* The bytes leaf strings are made of: every byte the text format treats
\* specially, a space, a newline and an ordinary letter.
TextAlphabet ==
    {Byte.lbrace, Byte.rbrace, Byte.comma, Byte.dquote, Byte.bslash,
     Byte.space, Byte.nl, Byte.a}

\* Spellings of the word NULL and near misses.
NullWords ==
    { NULL_WORD, LowerAll(NULL_WORD), <<Byte.N, Byte.u, Byte.l, Byte.l>>,
      <<Byte.n, Byte.U, Byte.L, Byte.l>>, NULL_WORD \o <<Byte.a>>,
      <<Byte.a>> \o NULL_WORD, <<Byte.N, Byte.U, Byte.L>>,
      LowerAll(NULL_WORD) \o <<Byte.nl>>, NULL_WORD \o <<Byte.nl>>,
      <<Byte.tab>>, <<Byte.cr>>, <<Byte.ff>>, <<Byte.vt>> }

ProbeLeaves ==
    {StrLeaf(s) : s \in SeqsUpTo(TextAlphabet, MaxStr) \cup NullWords}
    \cup {Leaf("int", n) : n \in {0, 7, 42, 300}}

\* Each probe leaf alone, beside None, after another leaf and in a
\* two-dimensional array.
ProbeValues ==
    UNION { { List(<<x>>), List(<<x, None>>), List(<<None, x, x>>),
              List(<<List(<<x>>), List(<<x>>)>>) } : x \in ProbeLeaves }

\* Lists mixing scalar types, and leaves of a type the catalog does not know.
MixedValues ==
    { List(<<Leaf("int", 7), StrLeaf(<<Byte.a>>)>>),
      List(<<None, StrLeaf(<<Byte.a>>), Leaf("int", 7)>>),
      List(<<Leaf("obj", <<Byte.a>>)>>),
      List(<<None, List(<<Leaf("int", 7)>>)>>) }

Values == TreeValues \cup ProbeValues \cup MixedValues

\* The raw text inputs: every string of brackets, commas and a letter.
TextInputs ==
    SeqsUpTo({Byte.lbrace, Byte.rbrace, Byte.comma, Byte.a}, MaxText)

\* The elements a raw binary body is made of: a NULL, payloads as long as
\* declared, a payload shorter than declared, and negative lengths.
ElemPool ==
    { Pack32(-1), Pack32(0), Pack32(1) \o <<Byte.a>>, Pack32(2) \o <<Byte.a>>,
      Pack32(-2), Pack32(-6) }

\* The raw binary inputs: a header, its dimensions and a body, and every
\* prefix of them.
BinInputs ==
    LET wires == { pack_head(Len(dims), 0, TEXT_OID) \o pack_dims(dims) \o Join(body) :
                     dims \in SeqsUpTo({1, 2}, 2),
                     body \in SeqsUpTo(ElemPool, MaxElems) }
    IN  UNION { {SubSeq(w, 1, n) : n \in 0..Len(w)} : w \in wires }

\* The values successive calls hand to one dumper instance.
HistoryValues ==
    MixedValues \cup
    { List(<<>>), List(<<None>>), List(<<StrLeaf(<<Byte.a>>)>>),
      List(<<Leaf("int", 7)>>), List(<<None, List(<<>>)>>),
      List(<<List(<<None>>), List(<<Leaf("int", 7)>>)>>) }

\* ---------------------------------------------------------- state machine

VARIABLES
    op,         \* the call made last ("new" before any)
    obj,        \* the list handed to the dumper called last (None: none)
    data,       \* the bytes on the wire: a dumper's output or a raw input
    fmt,        \* their format: "text", "binary" or "none"
    ret,        \* what the call returned or raised
    rv,         \* ArrayLoader.load: the list object returned (n: the n-th '{')
    reads,      \* ArrayBinaryLoader.load: the reads consume made
    tdumper,    \* the ListDumper instance: its _array_oid
    bdumper     \* the ListBinaryDumper instances: _array_oid by nesting level

vars == <<op, obj, data, fmt, ret, rv, reads, tdumper, bdumper>>

NoCall == [st |-> "none"]

\* Freshly constructed dumpers (BaseListDumper.__init__) and nothing called.
Fresh ==
    /\ op = "new"
    /\ ret = NoCall
    /\ rv = 0
    /\ reads = <<>>
    /\ tdumper = 0
    /\ bdumper = <<>>

\* One codec call sequence per input: a value to dump, or raw bytes to load.
Init ==
    /\ Fresh
    /\ \/ obj \in Values /\ data = <<>> /\ fmt = "none"
       \/ obj = None /\ data \in TextInputs /\ fmt = "text"
       \/ obj = None /\ data \in BinInputs /\ fmt = "binary"

\* ListDumper.dump(v)
ListDumper_dump(v) ==
    LET r == ListDumper_dump_fn(v, tdumper)
    IN  /\ op' = "ListDumper.dump"
        /\ obj' = v
        /\ ret' = r.ret
        /\ data' = r.ret.val
        /\ fmt' = "text"
        /\ tdumper' = r.array_oid
        /\ rv' = 0 /\ reads' = <<>>
        /\ UNCHANGED bdumper

\* ListBinaryDumper.dump(v)
ListBinaryDumper_dump(v) ==
    LET r == ListBinaryDumper_dump_fn(v, bdumper, 1)
    IN  /\ op' = "ListBinaryDumper.dump"
        /\ obj' = v
        /\ ret' = r.ret
        /\ data' = IF r.ret.st = "ok" THEN r.ret.val ELSE <<>>
        /\ fmt' = IF r.ret.st = "ok" THEN "binary" ELSE "none"
        /\ bdumper' = r.insts
        /\ rv' = 0 /\ reads' = <<>>
        /\ UNCHANGED tdumper

\* ArrayLoader.load(data), by the loader registered for the array oid the
\* dumper reports, or by the text[] loader for a raw input.
ArrayLoader_load ==
    /\ fmt = "text"
    /\ op \in {"new", "ListDumper.dump"}
    /\ LET array_oid == IF op = "new" THEN TEXT_ARRAY_OID
                        ELSE oid_property(tdumper)
           r == ArrayLoader_load_fn(data, loader_base_oid(array_oid))
       IN  /\ op' = "ArrayLoader.load"
           /\ ret' = r.ret
           /\ rv' = r.rv
    /\ UNCHANGED <<obj, data, fmt, reads, tdumper, bdumper>>

\* ArrayBinaryLoader.load(data)
ArrayBinaryLoader_load ==
    /\ fmt = "binary"
    /\ op \in {"new", "ListBinaryDumper.dump"}
    /\ LET r == ArrayBinaryLoader_load_fn(data)
       IN  /\ op' = "ArrayBinaryLoader.load"
           /\ ret' = r.ret
           /\ reads' = r.reads
    /\ UNCHANGED <<obj, data, fmt, rv, tdumper, bdumper>>

DumpText == op = "new" /\ IsList(obj) /\ ListDumper_dump(obj)

DumpBinary == op = "new" /\ IsList(obj) /\ ListBinaryDumper_dump(obj)

Next ==
    \/ DumpText
    \/ DumpBinary
    \/ ArrayLoader_load
    \/ ArrayBinaryLoader_load

Spec == Init /\ [][Next]_vars

\* Long-lived dumper instances: successive dumps on the same instances.
InitReuse ==
    /\ Fresh
    /\ obj = None /\ data = <<>> /\ fmt = "none"

ReuseText == \E v \in HistoryValues : ListDumper_dump(v)

ReuseBinary == \E v \in HistoryValues : ListBinaryDumper_dump(v)

NextReuse == ReuseText \/ ReuseBinary

SpecReuse == InitReuse /\ [][NextReuse]_vars

\* ----------------------------------------------------------------- claims

\* The extents found by descending into the first item of each level (0
\* for an empty list).
RECURSIVE Extents(_)
Extents(v) ==
    IF ~IsList(v) THEN <<>>
    ELSE IF v.items = <<>> THEN <<0>>
    ELSE <<Len(v.items)>> \o Extents(v.items[1])

RECURSIVE HasShape(_, _)
\* v is an array of exactly the extents dims, with leaves or None below.
HasShape(v, dims) ==
    IF dims = <<>> THEN ~IsList(v)
    ELSE /\ IsList(v)
         /\ Len(v.items) = Head(dims)
         /\ \A i \in 1..Len(v.items) : HasShape(v.items[i], Tail(dims))

\* A rectangular array value: the empty list, or an array every extent of
\* which is positive.
Rectangular(v) ==
    /\ IsList(v)
    /\ \/ v.items = <<>>
       \/ /\ \A i \in 1..Len(Extents(v)) : Extents(v)[i] > 0
          /\ HasShape(v, Extents(v))

RECURSIVE Flatten(_)
\* The leaves and None of v in depth-first left-to-right order.
Flatten(v) ==
    IF IsList(v) THEN Join([i \in 1..Len(v.items) |-> Flatten(v.items[i])])
    ELSE <<v>>

\* The non-None leaves of v, in the same order.
NonNullLeaves(v) == SelectSeq(Flatten(v), LAMBDA x : ~IsNone(x))

\* v is an array over one scalar type whose codecs the model has.
OverOneScalarType(v) ==
    \E ty \in {"str", "int"} :
        \A i \in 1..Len(NonNullLeaves(v)) : NonNullLeaves(v)[i].ty = ty

\* The array id the catalog gives for a scalar type id, the text array id
\* when it gives none.
CatalogArrayId(oid) ==
    LET e == {t \in builtins : t.oid = oid /\ t.array_oid # 0}
    IN  IF oid # 0 /\ e # {} THEN (CHOOSE t \in e : TRUE).array_oid
        ELSE TEXT_ARRAY_OID

\* C1: binary round trip.  Loading what ListBinaryDumper.dump returned for a
\* rectangular array over one scalar type gives the array back: same
\* nesting, same leaves in the same order, None at the same positions.
C1_BinaryRoundTrip ==
    (/\ op = "ArrayBinaryLoader.load"
     /\ Rectangular(obj)
     /\ OverOneScalarType(obj))
    => ret = Ok(obj)

\* A two-dimensional array holding None and a leaf has made the round trip.
C1_Witness ==
    /\ op = "ArrayBinaryLoader.load"
    /\ obj = List(<<List(<<None>>), List(<<StrLeaf(<<Byte.a>>)>>)>>)
    /\ ret = Ok(obj)

\* C2: text round trip.  Loading what ListDumper.dump returned for a
\* rectangular array over one scalar type, with the loader registered for
\* the array oid the dumper reports, gives the array back, whatever the
\* bytes of its leaves.
C2_TextRoundTrip ==
    (/\ op = "ArrayLoader.load"
     /\ Rectangular(obj)
     /\ OverOneScalarType(obj))
    => ret = Ok(obj)

\* A leaf made of a backslash and a double quote, beside None, has made the
\* round trip.
C2_Witness ==
    /\ op = "ArrayLoader.load"
    /\ obj = List(<<StrLeaf(<<Byte.bslash, Byte.dquote>>), None>>)
    /\ ret = Ok(obj)

\* C3: after ListDumper.dump(v) the oid of the instance is the array id of
\* the first non-None leaf of v in depth-first order, and the text array id
\* when v has no such leaf, whatever the instance dumped before.
C3_TextOidOfThisCall ==
    op = "ListDumper.dump" =>
        oid_property(tdumper) =
            (IF NonNullLeaves(obj) = <<>> THEN TEXT_ARRAY_OID
             ELSE CatalogArrayId(scalar_oid(NonNullLeaves(obj)[1])))

\* C4: after a ListBinaryDumper.dump(v) that returned bytes the oid of the
\* instance is the array id of the element type id in the header of those
\* bytes, whatever the instance dumped before.
C4_BinaryOidOfThisCall ==
    (op = "ListBinaryDumper.dump" /\ ret.st = "ok") =>
        oid_property(inst_get(bdumper, 1)) = CatalogArrayId(Unpack32(data, 8))

\* C5: ListBinaryDumper.dump raises DataError for every value that is not
\* rectangular: a length that differs from its level's extent, a list
\* beside a non-list, an empty list below the top level.
C5_RejectsNonRectangular ==
    (op = "ListBinaryDumper.dump" /\ ~Rectangular(obj)) => ret.st = "DataError"

\* The lists open after the first i bytes of an input without quotes.
BracketDepth(d, i) ==
    Cardinality({j \in 1..i : d[j] = Byte.lbrace})
    - Cardinality({j \in 1..i : d[j] = Byte.rbrace})

\* An input without quotes whose brackets are unbalanced or unexpected.
Malformed(d) ==
    \/ \E i \in 1..Len(d) :
          /\ d[i] \in {Byte.rbrace, Byte.a}
          /\ BracketDepth(d, i - 1) <= 0
    \/ BracketDepth(d, Len(d)) > 0

\* C6: ArrayLoader.load raises DataError for every input with a '}' or a
\* value met while no list is open, or with a '{' never closed.
C6_MalformedRejected ==
    (op = "ArrayLoader.load" /\ IsNone(obj) /\ Malformed(data))
    => ret.st = "DataError"

\* C7: ArrayBinaryLoader.load raises on every truncated input: the scalar
\* loader is never handed fewer bytes than the length read declares, and no
\* value is returned when a declared payload runs past the end.
C7_TruncatedRejected ==
    op = "ArrayBinaryLoader.load" =>
        \A i \in 1..Len(reads) :
            reads[i].size >= 0 =>
                /\ reads[i].handed = reads[i].size
                /\ ret.st = "ok" => reads[i].at + 4 + reads[i].size <= Len(data)

\* The claim's quoting rule: the bytes are empty, spell NULL in any case, or
\* hold a brace, a comma, a double quote, a backslash or whitespace.
MustBeQuoted(ad) ==
    \/ ad = <<>>
    \/ LowerAll(ad) = LowerAll(NULL_WORD)
    \/ \E i \in 1..Len(ad) :
          ad[i] \in {Byte.lbrace, Byte.rbrace, Byte.comma, Byte.dquote,
                     Byte.bslash, Byte.space, Byte.tab, Byte.nl, Byte.cr,
                     Byte.ff, Byte.vt}

\* The claim's token of a leaf: quoted, with a backslash before every
\* double quote and backslash, or the bytes unchanged; NULL for None.
ClaimedToken(x) ==
    IF IsNone(x) THEN NULL_WORD
    ELSE LET ad == scalar_dump_text(x)
         IN  IF MustBeQuoted(ad)
             THEN <<Byte.dquote>>
                  \o Join([i \in 1..Len(ad) |->
                             IF ad[i] \in {Byte.dquote, Byte.bslash}
                             THEN <<Byte.bslash, ad[i]>> ELSE <<ad[i]>>])
                  \o <<Byte.dquote>>
             ELSE ad

\* C8: in the text of a list of leaves and None, each leaf is quoted and
\* escaped exactly when the claim's rule says so, is unchanged otherwise,
\* and None is the bare word NULL (so the quoted string NULL differs).
C8_QuotingRule ==
    (/\ op = "ListDumper.dump"
     /\ obj.items # <<>>
     /\ \A i \in 1..Len(obj.items) : ~IsList(obj.items[i]))
    => data = <<Byte.lbrace>>
              \o Join([i \in 1..Len(obj.items) |->
                         (IF i > 1 THEN <<Byte.comma>> ELSE <<>>)
                         \o ClaimedToken(obj.items[i])])
              \o <<Byte.rbrace>>

\* The string NULL beside None has been dumped as {"NULL",NULL}.
C8_Witness ==
    /\ op = "ListDumper.dump"
    /\ obj = List(<<StrLeaf(NULL_WORD), None>>)
    /\ data = <<Byte.lbrace, Byte.dquote>> \o NULL_WORD
              \o <<Byte.dquote, Byte.comma>> \o NULL_WORD \o <<Byte.rbrace>>

\* C9: whenever ArrayLoader.load returns a value, it is the list the first
\* '{' of the input created.
C9_ReturnsFirstOpened ==
    (op = "ArrayLoader.load" /\ ret.st = "ok") => rv = 1

\* C10: every read of consume moves the offset forward by at least 4: by
\* exactly 4 for a length of -1 and by 4 + n for a length n >= 0.
C10_OffsetMovesForward ==
    op = "ArrayBinaryLoader.load" =>
        \A i \in 1..Len(reads) :
            /\ reads[i].next >= reads[i].at + 4
            /\ reads[i].size = -1 => reads[i].next = reads[i].at + 4
            /\ reads[i].size >= 0 =>
                   reads[i].next = reads[i].at + 4 + reads[i].size

====
